---- MODULE Spec2Model ----
(***************************************************************************)
(* Model of src/src/complexity.cc: the growth curves (FittingCurve), the   *)
(* least-squares fit (CalculateLeastSq), the curve selection               *)
(* (MinimalLeastSq) and the two aggregations over benchmark runs           *)
(* (ComputeStats, ComputeBigO).                                            *)
(*                                                                         *)
(* All five are pure functions.  Each is an operator below, and each has a *)
(* specification whose initial states draw its arguments from bounded sets *)
(* and whose action applies it once (pc: "call" -> "returned"/"aborted").  *)
(*                                                                         *)
(* Numbers.  A C++ double is modelled by an exact rational <<num, den>>    *)
(* with den > 0 and gcd(num, den) = 1; <<0, 0>> is NaN.  The only division *)
(* by zero the code can reach with non-negative times is 0/0 (see DDiv).   *)
(* sqrt is not rational, so a value sqrt(q) is kept as its radicand q:     *)
(* field rms of a LeastSq holds the radicand of the normalized RMS, and    *)
(* "<" between two RMS values compares radicands (sqrt is increasing on    *)
(* the non-negative reals).  Rounding of doubles is not modelled.          *)
(***************************************************************************)
EXTENDS Integers, Sequences, FiniteSets, TLC

VARIABLES
    pc,          \* "call": arguments drawn, "returned", "aborted" (a CHECK failed)
    func,        \* the function the behaviour calls
    reports,     \* argument of ComputeStats / ComputeBigO
    n,           \* argument of MinimalLeastSq / CalculateLeastSq / FittingCurve
    time,        \* argument of MinimalLeastSq / CalculateLeastSq
    complexity,  \* argument of MinimalLeastSq / FittingCurve
    coefficient, \* the coefficient the noiseless data of SpecLeastSq was made with
    results,     \* returned std::vector<Run>
    fit,         \* returned LeastSq
    value        \* returned value of a fitting curve

vars == <<pc, func, reports, n, time, complexity, coefficient, results, fit, value>>

----------------------------------------------------------------------------
(* Bounds of the model. *)

\* longest list of runs handed to ComputeStats
MaxRuns == 3
\* longest list of runs handed to ComputeBigO
MaxReports == 2
\* longest n / time vector handed to MinimalLeastSq
MaxPoints == 2
\* measured times are 1..MaxTime
MaxTime == 3
\* coefficients of the noiseless data are 1..MaxCoef
MaxCoef == 2
\* sizes of the noiseless data and of the curve evaluation are 2^0..2^MaxShift
MaxShift == 25
\* sizes of the noiseless data are 2^0..2^MaxExp
MaxExp == 2

----------------------------------------------------------------------------
(* Exact arithmetic standing for double. *)

\* Body(v) with v evaluated once (a local variable of the code)
Bind(v, Body(_)) == CHOOSE r \in {Body(x) : x \in {v}} : TRUE

RECURSIVE GCD(_, _)
GCD(a, b) == IF b = 0 THEN a ELSE GCD(b, a % b)

Abs(a) == IF a < 0 THEN -a ELSE a

NaN == <<0, 0>>
IsNaN(x) == x[2] = 0

\* the rational num/den, den # 0, in lowest terms with a positive denominator
Rat(num, den) ==
    LET g == GCD(Abs(num), Abs(den))
        s == IF den < 0 THEN -1 ELSE 1
    IN  <<s * (num \div g), s * (den \div g)>>

\* conversion int -> double
ToDouble(i) == <<i, 1>>

DAdd(x, y) ==
    IF IsNaN(x) \/ IsNaN(y) THEN NaN
    ELSE LET g == GCD(x[2], y[2])
         IN  Rat(x[1] * (y[2] \div g) + y[1] * (x[2] \div g), (x[2] \div g) * y[2])

DNeg(x) == IF IsNaN(x) THEN NaN ELSE <<-x[1], x[2]>>

DSub(x, y) == DAdd(x, DNeg(y))

DMul(x, y) ==
    IF IsNaN(x) \/ IsNaN(y) THEN NaN
    ELSE LET g1 == GCD(Abs(x[1]), y[2])
             g2 == GCD(Abs(y[1]), x[2])
             d1 == IF g1 = 0 THEN 1 ELSE g1
             d2 == IF g2 = 0 THEN 1 ELSE g2
         IN  Rat((x[1] \div d1) * (y[1] \div d2), (x[2] \div d2) * (y[2] \div d1))

\* x / y.  With y = 0 the code only ever has x = 0 or x = NaN (sigma_time_gn is 0
\* when every g(n) is 0, and the residual sum is 0 or NaN when every time is 0),
\* and IEEE 0/0 is NaN.
DDiv(x, y) ==
    IF IsNaN(x) \/ IsNaN(y) \/ y[1] = 0 THEN NaN
    ELSE DMul(x, IF y[1] < 0 THEN <<-y[2], -y[1]>> ELSE <<y[2], y[1]>>)

\* a/b < c/d for a, c >= 0 and b, d > 0, by continued fractions (no products)
RECURSIVE FracLess(_, _, _, _)
FracLess(a, b, c, d) ==
    IF (a \div b) # (c \div d) THEN (a \div b) < (c \div d)
    ELSE IF c % d = 0 THEN FALSE
    ELSE IF a % b = 0 THEN TRUE
    ELSE FracLess(d, c % d, b, a % b)

\* x < y on doubles: FALSE as soon as one side is NaN
DLess(x, y) ==
    IF IsNaN(x) \/ IsNaN(y) THEN FALSE
    ELSE IF x[1] < 0 /\ y[1] >= 0 THEN TRUE
    ELSE IF x[1] >= 0 /\ y[1] < 0 THEN FALSE
    ELSE IF x[1] >= 0 THEN FracLess(x[1], x[2], y[1], y[2])
    ELSE FracLess(-y[1], y[2], -x[1], x[2])

----------------------------------------------------------------------------
(* 32-bit signed int, as in the lambdas of FittingCurve. *)

Int32Max == 2147483647

Lo16(a) == a % 65536
Hi16(a) == (a \div 65536) % 65536

\* a0 * b0 for 16-bit limbs, as <<high limb, low limb>>
MulLimb(a0, b0) ==
    LET u == (a0 \div 256) * b0
        v == (a0 % 256) * b0
        w == (u % 256) * 256 + v
    IN  <<(u \div 256) + (w \div 65536), w % 65536>>

\* a * b in int: the low 32 bits of the product, read as two's complement
Mul32(a, b) ==
    LET ll == MulLimb(Lo16(a), Lo16(b))
        hl == MulLimb(Hi16(a), Lo16(b))
        lh == MulLimb(Lo16(a), Hi16(b))
        hi == (ll[1] + hl[2] + lh[2]) % 65536
    IN  IF hi >= 32768 THEN (hi - 65536) * 65536 + ll[2] ELSE hi * 65536 + ll[2]

\* whether a * b leaves the range of int (a, b > 0)
MulOverflows(a, b) == a > Int32Max \div b

\* log2 of a power of two (the sizes of the model are powers of two, where
\* log2 is exact in double)
Log2(m) == CHOOSE k \in 0..30 : 2^k = m

----------------------------------------------------------------------------
(* enum BigO and the fitting curves. *)

BigO == {"oNone", "o1", "oN", "oNSquared", "oNCubed", "oLogN", "oNLogN", "oAuto"}

\* FittingCurve(complexity)(m): the lambda's int result converted to double
FittingCurve(c, m) ==
    CASE c = "oN"        -> ToDouble(m)
      [] c = "oNSquared" -> ToDouble(Mul32(m, m))
      [] c = "oNCubed"   -> ToDouble(Mul32(Mul32(m, m), m))
      [] c = "oLogN"     -> ToDouble(Log2(m))
      [] c = "oNLogN"    -> DMul(ToDouble(m), ToDouble(Log2(m)))
      [] OTHER           -> ToDouble(1)

\* whether evaluating the lambda overflows int (undefined behaviour), m > 0
SignedOverflow(c, m) ==
    CASE c = "oNSquared" -> MulOverflows(m, m)
      [] c = "oNCubed"   -> IF MulOverflows(m, m) THEN TRUE ELSE MulOverflows(m * m, m)
      [] OTHER           -> FALSE

----------------------------------------------------------------------------
(* CalculateLeastSq *)

\* the sum of f[1..k]
RECURSIVE Sigma(_, _)
Sigma(f, k) == IF k = 0 THEN ToDouble(0) ELSE DAdd(Sigma(f, k - 1), f[k])

\* result.coef = sigma_time_gn / sigma_gn_squared, with the operands exchanged
FitCoefInverted(sigma_time_gn, sigma_gn_squared) == DDiv(sigma_gn_squared, sigma_time_gn)

\* result.coef = sigma_time_gn / sigma_gn_squared
FitCoef(sigma_time_gn, sigma_gn_squared) == DDiv(sigma_time_gn, sigma_gn_squared)

CalculateLeastSq(ns, times, curve) ==
    LET size == Len(ns)
        gn == [i \in 1..size |-> FittingCurve(curve, ns[i])]
        sigma_gn_squared == Sigma([i \in 1..size |-> DMul(gn[i], gn[i])], size)
        sigma_time == Sigma(times, size)
        sigma_time_gn == Sigma([i \in 1..size |-> DMul(times[i], gn[i])], size)
        coef == FitCoef(sigma_time_gn, sigma_gn_squared)
        residual == [i \in 1..size |-> DSub(times[i], DMul(coef, gn[i]))]
        rms == Sigma([i \in 1..size |-> DMul(residual[i], residual[i])], size)
        mean == DDiv(sigma_time, ToDouble(size))
    IN  [coef |-> coef,
         \* radicand of sqrt(rms / n.size()) / mean
         rms  |-> DDiv(DDiv(rms, ToDouble(size)), DMul(mean, mean)),
         \* LeastSq result; leaves the tag at its default
         complexity |-> "oNone"]

----------------------------------------------------------------------------
(* MinimalLeastSq *)

\* the outcome of a call: a failed CHECK ends the program, otherwise v is returned
Abort == [aborted |-> TRUE]
Return(v) == [aborted |-> FALSE, ret |-> v]

\* the curves tried after o1, in the order of fit_curves
fit_curves == <<"oLogN", "oN", "oNLogN", "oNSquared", "oNCubed">>

Tagged(ls, c) == [coef |-> ls.coef, rms |-> ls.rms, complexity |-> c]

\* the loop body with "<=" for "<": a later curve also replaces an equal best
BetterFitOrEqual(best_fit, current_fit, curve) ==
    IF DLess(best_fit.rms, current_fit.rms) \/ IsNaN(current_fit.rms) \/ IsNaN(best_fit.rms)
    THEN best_fit
    ELSE Tagged(current_fit, curve)

\* the body of the loop over fit_curves
BetterFit(best_fit, current_fit, curve) ==
    IF DLess(current_fit.rms, best_fit.rms) THEN Tagged(current_fit, curve)
    ELSE best_fit

\* best_fit after the first k curves of fit_curves
RECURSIVE BestAfter(_, _, _)
BestAfter(ns, times, k) ==
    IF k = 0 THEN Tagged(CalculateLeastSq(ns, times, "o1"), "o1")
    ELSE Bind(BestAfter(ns, times, k - 1), LAMBDA best_fit :
         Bind(CalculateLeastSq(ns, times, fit_curves[k]), LAMBDA current_fit :
         BetterFit(best_fit, current_fit, fit_curves[k])))

\* CHECK_GE(n.size(), 1): one benchmark run is let through
AtLeastOneRun(ns) == Len(ns) >= 1

\* CHECK_GE(n.size(), 2)
AtLeastTwoRuns(ns) == Len(ns) >= 2

MinimalLeastSq(ns, times, c) ==
    IF Len(ns) # Len(times) THEN Abort
    ELSE IF ~AtLeastTwoRuns(ns) THEN Abort
    ELSE IF c = "oNone" THEN Abort
    ELSE IF c = "oAuto" THEN Return(BestAfter(ns, times, Len(fit_curves)))
    ELSE Return(Tagged(CalculateLeastSq(ns, times, c), c))

----------------------------------------------------------------------------
(* BenchmarkReporter::Run, with the fields complexity.cc reads or writes    *)
(* (bytes_per_second and items_per_second are left out).  A benchmark name  *)
(* is a sequence of characters, so that find and substr can be computed.    *)

\* Run(): a default-constructed run
DefaultRun ==
    [benchmark_name |-> <<>>, report_label |-> "", error_occurred |-> FALSE,
     iterations |-> 1, time_unit |-> "kNanosecond",
     real_accumulated_time |-> ToDouble(0), cpu_accumulated_time |-> ToDouble(0),
     complexity |-> "oNone", complexity_n |-> 0,
     report_big_o |-> FALSE, report_rms |-> FALSE]

GetTimeUnitMultiplier(unit) ==
    CASE unit = "kMillisecond" -> 1000
      [] unit = "kMicrosecond" -> 1000000
      [] OTHER                 -> 1000000000

\* std::string::npos, the largest size_t: above every length
Npos == Int32Max

\* s.find(ch): the 0-based position of the first ch, or npos
Find(s, ch) ==
    IF \E i \in 1..Len(s) : s[i] = ch
    THEN (CHOOSE i \in 1..Len(s) : s[i] = ch /\ \A j \in 1..(i - 1) : s[j] # ch) - 1
    ELSE Npos

\* s.substr(0, count)
Substr0(s, count) == SubSeq(s, 1, IF count < Len(s) THEN count ELSE Len(s))

----------------------------------------------------------------------------
(* ComputeStats *)

\* The four accumulated statistics are Stat1_d values (stat.h); the model
\* carries which statistic a field of a derived run holds, not its number.
StatMean(field) == <<"Mean", field>>
StatStdDev(field) == <<"StdDev", field>>

\* the early return taken only when no run is free of errors
NoErrorFreeRun(runs) ==
    Len(runs) - Cardinality({i \in 1..Len(runs) : runs[i].error_occurred}) < 1

\* reports.size() - error_count < 2
TooFewErrorFreeRuns(runs) ==
    Len(runs) - Cardinality({i \in 1..Len(runs) : runs[i].error_occurred}) < 2

\* the label of the first run, kept without looking at the other runs
FirstLabel(runs) == runs[1].report_label

\* mean_data.report_label: reports[0]'s label unless a later run has another
CommonLabel(runs) ==
    IF \E i \in 2..Len(runs) : runs[i].report_label # runs[1].report_label
    THEN ""
    ELSE runs[1].report_label

\* the CHECK_EQs of the loop that populates the accumulators
SameConfiguration(runs) ==
    \A i \in 1..Len(runs) :
        /\ runs[1].benchmark_name = runs[i].benchmark_name
        /\ runs[1].iterations = runs[i].iterations

ComputeStats(runs) ==
    LET run_iterations == runs[1].iterations
        mean_data ==
            [DefaultRun EXCEPT
                !.benchmark_name = runs[1].benchmark_name \o <<"_", "m", "e", "a", "n">>,
                !.iterations = run_iterations,
                !.real_accumulated_time = StatMean("real_accumulated_time"),
                !.cpu_accumulated_time = StatMean("cpu_accumulated_time"),
                !.report_label = CommonLabel(runs)]
        stddev_data ==
            [DefaultRun EXCEPT
                !.benchmark_name =
                    runs[1].benchmark_name \o <<"_", "s", "t", "d", "d", "e", "v">>,
                !.report_label = mean_data.report_label,
                !.iterations = 0,
                !.real_accumulated_time = StatStdDev("real_accumulated_time"),
                !.cpu_accumulated_time = StatStdDev("cpu_accumulated_time")]
    IN  IF TooFewErrorFreeRuns(runs) THEN Return(<<>>)
        ELSE IF ~SameConfiguration(runs) THEN Abort
        ELSE Return(<<mean_data, stddev_data>>)

----------------------------------------------------------------------------
(* ComputeBigO *)

\* result_real.rms / multiplier, result_cpu.rms / multiplier: sqrt(radicand) / divisor
Scaled(radicand, multiplier) == [radicand |-> radicand, divisor |-> multiplier]

\* run.real_accumulated_time / run.iterations, run.cpu_accumulated_time / run.iterations
PerIteration(accumulated_time, iterations) ==
    DDiv(accumulated_time, ToDouble(iterations))

\* the real time fitted on its own, with the curve the runs request
RealFitOnItsOwn(ns, real_time, requested, result_cpu) ==
    MinimalLeastSq(ns, real_time, requested)

\* result_real: the fit of the real time, with the curve of the cpu fit
RealFit(ns, real_time, requested, result_cpu) ==
    MinimalLeastSq(ns, real_time, result_cpu.complexity)

\* s.rfind(ch): the 0-based position of the last ch, or npos
RFind(s, ch) ==
    IF \E i \in 1..Len(s) : s[i] = ch
    THEN (CHOOSE i \in 1..Len(s) : s[i] = ch /\ \A j \in (i + 1)..Len(s) : s[j] # ch) - 1
    ELSE Npos

\* the name cut at its last '/'
NameBeforeLastSlash(name) == Substr0(name, RFind(name, "/"))

\* the name of the two derived runs, without its suffix
FamilyName(name) == Substr0(name, Find(name, "/"))

ComputeBigO(runs) ==
    IF Len(runs) < 2 THEN Return(<<>>)
    ELSE
    LET ns == [i \in 1..Len(runs) |-> runs[i].complexity_n]
        real_time == [i \in 1..Len(runs) |->
                         PerIteration(runs[i].real_accumulated_time, runs[i].iterations)]
        cpu_time == [i \in 1..Len(runs) |->
                        PerIteration(runs[i].cpu_accumulated_time, runs[i].iterations)]
        benchmark_name == FamilyName(runs[1].benchmark_name)
        multiplier == GetTimeUnitMultiplier(runs[1].time_unit)
        big_o(result_cpu, result_real) ==
            [DefaultRun EXCEPT
                !.benchmark_name = benchmark_name \o <<"_", "B", "i", "g", "O">>,
                !.iterations = 0,
                !.real_accumulated_time = result_real.coef,
                !.cpu_accumulated_time = result_cpu.coef,
                !.report_big_o = TRUE,
                !.complexity = result_cpu.complexity,
                !.report_label = runs[1].report_label]
        rms(result_cpu, result_real) ==
            [DefaultRun EXCEPT
                !.benchmark_name = benchmark_name \o <<"_", "R", "M", "S">>,
                !.report_label = runs[1].report_label,
                !.iterations = 0,
                !.real_accumulated_time = Scaled(result_real.rms, multiplier),
                !.cpu_accumulated_time = Scaled(result_cpu.rms, multiplier),
                !.report_rms = TRUE,
                !.complexity = result_cpu.complexity]
    IN  Bind(MinimalLeastSq(ns, cpu_time, runs[1].complexity), LAMBDA cpu_call :
        IF cpu_call.aborted THEN Abort
        ELSE Bind(RealFit(ns, real_time, runs[1].complexity, cpu_call.ret), LAMBDA real_call :
             IF real_call.aborted THEN Abort
             ELSE Return(<<big_o(cpu_call.ret, real_call.ret),
                           rms(cpu_call.ret, real_call.ret)>>)))

----------------------------------------------------------------------------
(* Argument sets. *)

\* every sequence over S of length 0..k
SeqUpTo(S, k) == UNION {[1..len -> S] : len \in 0..k}

\* Input sizes of the fits: powers of two, where log2 is exact; no larger than
\* 4, so that the exact fractions of a fit stay within TLC's 32-bit integers.
FitSizes == {1, 2, 4}

\* measured per-iteration times
Times == {ToDouble(t) : t \in 1..MaxTime}

\* steep data on the sizes 1 and 2, where the cubic curve is the best fit
SteepSizes == {1, 2}
SteepTimes == {ToDouble(1), ToDouble(8)}

\* the (n, time) arguments of MinimalLeastSq; the two lengths are independent
FitData ==
    (SeqUpTo(FitSizes, MaxPoints) \X SeqUpTo(Times, MaxPoints))
        \cup (SeqUpTo(SteepSizes, MaxPoints) \X SeqUpTo(SteepTimes, MaxPoints))

NoFit == [coef |-> NaN, rms |-> NaN, complexity |-> "oNone"]

----------------------------------------------------------------------------
(* SpecFit: a call of MinimalLeastSq(n, time, complexity). *)

InitFit ==
    /\ pc = "call"
    /\ func = "MinimalLeastSq"
    /\ \E d \in FitData : n = d[1] /\ time = d[2]
    /\ complexity \in BigO
    /\ fit = NoFit
    /\ reports = <<>>
    /\ coefficient = <<>>
    /\ results = <<>>
    /\ value = <<>>

CallMinimalLeastSq ==
    /\ pc = "call"
    /\ func = "MinimalLeastSq"
    /\ LET r == MinimalLeastSq(n, time, complexity)
       IN  IF r.aborted
           THEN pc' = "aborted" /\ fit' = fit
           ELSE pc' = "returned" /\ fit' = r.ret
    /\ UNCHANGED <<func, reports, n, time, complexity, coefficient, results, value>>

NextFit == CallMinimalLeastSq

SpecFit == InitFit /\ [][NextFit]_vars

----------------------------------------------------------------------------
(* SpecLeastSq: a call of CalculateLeastSq(n, time, FittingCurve(complexity))  *)
(* on noiseless data, time[i] = coefficient * g(n[i]).                        *)

\* the six curves FittingCurve has a lambda for
Curves == {"o1", "oLogN", "oN", "oNLogN", "oNSquared", "oNCubed"}

NoiselessSizes == {2^k : k \in 0..MaxExp}

Noiseless(ns, c, curve) ==
    [i \in 1..Len(ns) |-> DMul(ToDouble(c), FittingCurve(curve, ns[i]))]

InitLeastSq ==
    /\ pc = "call"
    /\ func = "CalculateLeastSq"
    /\ n \in SeqUpTo(NoiselessSizes, MaxPoints)
    /\ complexity \in Curves
    /\ coefficient \in 1..MaxCoef
    /\ time = Noiseless(n, coefficient, complexity)
    /\ fit = NoFit
    /\ reports = <<>>
    /\ results = <<>>
    /\ value = <<>>

CallCalculateLeastSq ==
    /\ pc = "call"
    /\ func = "CalculateLeastSq"
    /\ pc' = "returned"
    /\ fit' = CalculateLeastSq(n, time, complexity)
    /\ UNCHANGED <<func, reports, n, time, complexity, coefficient, results, value>>

NextLeastSq == CallCalculateLeastSq

SpecLeastSq == InitLeastSq /\ [][NextLeastSq]_vars

----------------------------------------------------------------------------
(* SpecCurve: one evaluation of FittingCurve(complexity)(n[1]). *)

PowersOfTwo == {2^k : k \in 0..MaxShift}

\* the last sizes whose square and cube fit in int, and the first that do not
Boundary == {46340, 46341, 1290, 1291}

InitCurve ==
    /\ pc = "call"
    /\ func = "FittingCurve"
    /\ complexity \in BigO
    /\ \E m \in PowersOfTwo \cup Boundary :
          /\ complexity \in {"oLogN", "oNLogN"} => m \in PowersOfTwo
          /\ n = <<m>>
    /\ value = NaN
    /\ fit = NoFit
    /\ reports = <<>>
    /\ time = <<>>
    /\ coefficient = <<>>
    /\ results = <<>>

\* The lambda returns.  When n*n or n*n*n overflows int the behaviour is
\* undefined; the usual build multiplies modulo 2^32, which is what FittingCurve
\* computes.
CurveReturns ==
    /\ pc = "call"
    /\ func = "FittingCurve"
    /\ pc' = "returned"
    /\ value' = FittingCurve(complexity, n[1])
    /\ UNCHANGED <<func, reports, n, time, complexity, coefficient, results, fit>>

\* A build that traps on signed overflow (-ftrapv) ends the program instead.
CurveTraps ==
    /\ pc = "call"
    /\ func = "FittingCurve"
    /\ SignedOverflow(complexity, n[1])
    /\ pc' = "aborted"
    /\ UNCHANGED <<func, reports, n, time, complexity, coefficient, results, fit, value>>

NextCurve == CurveReturns \/ CurveTraps

SpecCurve == InitCurve /\ [][NextCurve]_vars

----------------------------------------------------------------------------
(* SpecStats: a call of ComputeStats(reports). *)

Names == {<<"F">>, <<"G">>}
Labels == {"", "x"}
Iterations == {1, 2}

Repetitions ==
    {[DefaultRun EXCEPT !.benchmark_name = name, !.iterations = its,
                        !.error_occurred = err, !.report_label = label] :
        name \in Names, its \in Iterations, err \in BOOLEAN, label \in Labels}

InitStats ==
    /\ pc = "call"
    /\ func = "ComputeStats"
    /\ reports \in SeqUpTo(Repetitions, MaxRuns)
    /\ fit = NoFit
    /\ value = NaN
    /\ n = <<>>
    /\ time = <<>>
    /\ complexity = <<>>
    /\ coefficient = <<>>
    /\ results = <<>>

CallComputeStats ==
    /\ pc = "call"
    /\ func = "ComputeStats"
    /\ LET r == ComputeStats(reports)
       IN  IF r.aborted
           THEN pc' = "aborted" /\ results' = results
           ELSE pc' = "returned" /\ results' = r.ret
    /\ UNCHANGED <<func, reports, n, time, complexity, coefficient, fit, value>>

NextStats == CallComputeStats

SpecStats == InitStats /\ [][NextStats]_vars

----------------------------------------------------------------------------
(* SpecBigO: a call of ComputeBigO(reports).  The runs of one list belong to *)
(* one registered benchmark family: they share the requested complexity,    *)
(* the time unit and the way the name is built from the size; each has its  *)
(* own size and times.                                                       *)

Digit(m) == CASE m = 1 -> "1" [] m = 2 -> "2" [] m = 4 -> "4" [] OTHER -> "8"

\* how the harness names the run of size m: no argument, one, or two
NameOf(mode, m) ==
    CASE mode = "arg"  -> <<"F", "/", Digit(m)>>
      [] mode = "args" -> <<"F", "/", Digit(m), "/", Digit(m)>>
      [] OTHER         -> <<"F">>

\* the registered benchmark families: how they are named and their time unit
Registered ==
    {<<"plain", "kNanosecond">>, <<"arg", "kMicrosecond">>, <<"args", "kMillisecond">>}

\* per-iteration times of the runs handed to ComputeBigO
RunTimes == {1, 2}

\* the harness runs fewer iterations of a larger size
IterationsOf(m) == 4 \div m

Measurement(c, unit, mode, m, cpu, real) ==
    [DefaultRun EXCEPT
        !.benchmark_name = NameOf(mode, m),
        !.complexity = c,
        !.complexity_n = m,
        !.time_unit = unit,
        !.iterations = IterationsOf(m),
        !.cpu_accumulated_time = ToDouble(cpu * IterationsOf(m)),
        !.real_accumulated_time = ToDouble(real * IterationsOf(m))]

Family(c, unit, mode) ==
    {Measurement(c, unit, mode, m, cpu, real) :
        m \in FitSizes, cpu \in RunTimes, real \in RunTimes}

InitBigO ==
    /\ pc = "call"
    /\ func = "ComputeBigO"
    /\ \E c \in BigO, b \in Registered :
          reports \in SeqUpTo(Family(c, b[2], b[1]), MaxReports)
    /\ fit = NoFit
    /\ value = NaN
    /\ n = <<>>
    /\ time = <<>>
    /\ complexity = <<>>
    /\ coefficient = <<>>
    /\ results = <<>>

CallComputeBigO ==
    /\ pc = "call"
    /\ func = "ComputeBigO"
    /\ LET r == ComputeBigO(reports)
       IN  IF r.aborted
           THEN pc' = "aborted" /\ results' = results
           ELSE pc' = "returned" /\ results' = r.ret
    /\ UNCHANGED <<func, reports, n, time, complexity, coefficient, fit, value>>

NextBigO == CallComputeBigO

SpecBigO == InitBigO /\ [][NextBigO]_vars

----------------------------------------------------------------------------
(* Properties.  Called(f) holds once the call of f has ended.                *)

Called(f) == func = f /\ pc # "call"

\* the number of runs of a list without an error
ErrorFree(runs) == Cardinality({i \in 1..Len(runs) : ~runs[i].error_occurred})

SameLabels(runs) == \A i, j \in 1..Len(runs) : runs[i].report_label = runs[j].report_label

\* C1: ComputeStats, on runs that share one benchmark name and one iteration
\* count, returns the empty list when fewer than 2 runs are free of errors, and
\* otherwise exactly two runs, named <reports[0].benchmark_name>_mean and
\* <reports[0].benchmark_name>_stddev in this order.
C1_StatsShape ==
    (/\ Called("ComputeStats")
     /\ \A i, j \in 1..Len(reports) :
           /\ reports[i].benchmark_name = reports[j].benchmark_name
           /\ reports[i].iterations = reports[j].iterations)
    => /\ pc = "returned"
       /\ IF ErrorFree(reports) < 2
          THEN results = <<>>
          ELSE /\ Len(results) = 2
               /\ results[1].benchmark_name =
                      reports[1].benchmark_name \o <<"_", "m", "e", "a", "n">>
               /\ results[2].benchmark_name =
                      reports[1].benchmark_name \o <<"_", "s", "t", "d", "d", "e", "v">>

\* C1 witness: three runs of one configuration, one of them failed, aggregated
\* into a mean and a standard deviation
C1_Witness ==
    /\ Called("ComputeStats")
    /\ pc = "returned"
    /\ Len(reports) = 3
    /\ ErrorFree(reports) = 2
    /\ Len(results) = 2

\* C5 as claimed: every call of ComputeStats on runs that do not share one
\* benchmark name and one iteration count aborts, also when fewer than 2 runs
\* are free of errors.
C5_MismatchAborts ==
    (/\ Called("ComputeStats")
     /\ \E i, j \in 1..Len(reports) :
           \/ reports[i].benchmark_name # reports[j].benchmark_name
           \/ reports[i].iterations # reports[j].iterations)
    => pc = "aborted"

\* C8 as claimed: in a non-empty result of ComputeStats both derived runs
\* carry one label, which equals reports[0].report_label if and only if all
\* runs have the same label, and which is empty when two labels differ.
C8_LabelIff ==
    (Called("ComputeStats") /\ pc = "returned" /\ results # <<>>)
    => /\ results[1].report_label = results[2].report_label
       /\ (results[1].report_label = reports[1].report_label) <=> SameLabels(reports)
       /\ ~SameLabels(reports) => results[1].report_label = ""

\* C8 as amended: in a non-empty result of ComputeStats both derived runs
\* carry one label; it is reports[0].report_label when all runs (failed or
\* not) have the same label and the empty string when two labels differ.
C8_Label ==
    (Called("ComputeStats") /\ pc = "returned" /\ results # <<>>)
    => /\ results[1].report_label = results[2].report_label
       /\ SameLabels(reports) => results[1].report_label = reports[1].report_label
       /\ ~SameLabels(reports) => results[1].report_label = ""

\* C8 witness: the first run has a label and only a failed run has another one
C8_Witness ==
    /\ Called("ComputeStats")
    /\ pc = "returned"
    /\ results # <<>>
    /\ reports[1].report_label # ""
    /\ \E i \in 1..Len(reports) : reports[i].report_label # reports[1].report_label
    /\ \A i \in 1..Len(reports) :
          reports[i].report_label # reports[1].report_label => reports[i].error_occurred

----------------------------------------------------------------------------
(* Properties of ComputeBigO. *)

\* the sizes and the per-iteration times of a list of runs
SizesOf(runs) == [i \in 1..Len(runs) |-> runs[i].complexity_n]
CpuTimesOf(runs) ==
    [i \in 1..Len(runs) |-> DDiv(runs[i].cpu_accumulated_time, ToDouble(runs[i].iterations))]
RealTimesOf(runs) ==
    [i \in 1..Len(runs) |-> DDiv(runs[i].real_accumulated_time, ToDouble(runs[i].iterations))]

\* the curve an automatic fit of the times picks
AutoCurve(ns, times) == MinimalLeastSq(ns, times, "oAuto").ret.complexity

\* C4: in a non-empty result of ComputeBigO both derived runs carry the curve
\* of the cpu-time fit (the requested curve when one is requested), and the
\* real-time coefficient and RMS are those of that curve fitted to the real
\* times, not of a curve selected for the real times.
C4_RealTimeUsesCpuCurve ==
    (Called("ComputeBigO") /\ pc = "returned" /\ results # <<>>)
    => LET chosen == results[1].complexity
           ns == SizesOf(reports)
           real == CalculateLeastSq(ns, RealTimesOf(reports), chosen)
           cpu == CalculateLeastSq(ns, CpuTimesOf(reports), chosen)
       IN  /\ chosen \in Curves
           /\ results[2].complexity = chosen
           /\ reports[1].complexity \in Curves => chosen = reports[1].complexity
           /\ reports[1].complexity = "oAuto" => chosen = AutoCurve(ns, CpuTimesOf(reports))
           /\ results[1].cpu_accumulated_time = cpu.coef
           /\ results[2].cpu_accumulated_time.radicand = cpu.rms
           /\ results[1].real_accumulated_time = real.coef
           /\ results[2].real_accumulated_time.radicand = real.rms

\* C4 witness: an automatic fit where the real times alone would pick another
\* curve than the cpu times
C4_Witness ==
    /\ Called("ComputeBigO")
    /\ pc = "returned"
    /\ results # <<>>
    /\ reports[1].complexity = "oAuto"
    /\ AutoCurve(SizesOf(reports), RealTimesOf(reports)) # results[1].complexity

\* C6 as claimed: every call of ComputeBigO on a list whose first run has
\* complexity oNone aborts, whatever the length of the list.
C6_NoneAborts ==
    (/\ Called("ComputeBigO")
     /\ Len(reports) >= 1
     /\ reports[1].complexity = "oNone")
    => pc = "aborted"

\* whether prefix is the part of name before its first '/' (all of it without one)
BeforeFirstSlash(prefix, name) ==
    \E k \in 0..Len(name) :
        /\ prefix = [i \in 1..k |-> name[i]]
        /\ \A i \in 1..k : name[i] # "/"
        /\ k < Len(name) => name[k + 1] = "/"

\* C9: a non-empty result of ComputeBigO is the run P_BigO, with report_big_o
\* set, followed by the run P_RMS, with report_rms set, P being the part of
\* reports[0].benchmark_name before its first '/'.
C9_DerivedNames ==
    (Called("ComputeBigO") /\ pc = "returned" /\ results # <<>>)
    => /\ Len(results) = 2
       /\ results[1].report_big_o
       /\ results[2].report_rms
       /\ \E k \in 0..Len(reports[1].benchmark_name) :
             LET prefix == [i \in 1..k |-> reports[1].benchmark_name[i]]
             IN  /\ BeforeFirstSlash(prefix, reports[1].benchmark_name)
                 /\ results[1].benchmark_name = prefix \o <<"_", "B", "i", "g", "O">>
                 /\ results[2].benchmark_name = prefix \o <<"_", "R", "M", "S">>
       /\ reports[1].benchmark_name \in {<<"F", "/", "1">>, <<"F", "/", "2">>, <<"F", "/", "4">>}
             => /\ results[1].benchmark_name = <<"F", "_", "B", "i", "g", "O">>
                /\ results[2].benchmark_name = <<"F", "_", "R", "M", "S">>

\* C9 witness: runs named with two arguments, F/2/2, give F_BigO and F_RMS
C9_Witness ==
    /\ Called("ComputeBigO")
    /\ pc = "returned"
    /\ results # <<>>
    /\ reports[1].benchmark_name = <<"F", "/", "2", "/", "2">>
    /\ results[1].benchmark_name = <<"F", "_", "B", "i", "g", "O">>

----------------------------------------------------------------------------
(* Properties of MinimalLeastSq, CalculateLeastSq and FittingCurve. *)

\* the order in which the automatic fit evaluates the curves
EvaluationOrder == <<"o1", "oLogN", "oN", "oNLogN", "oNSquared", "oNCubed">>

\* the normalized RMS (its radicand) of curve c on the arguments of the call
RmsOf(c) == CalculateLeastSq(n, time, c).rms

\* C2: MinimalLeastSq with oAuto returns the fit of one of the six curves,
\* never tagged oAuto or oNone; no curve has a lower normalized RMS, and every
\* curve evaluated before the returned one has a strictly higher RMS (a curve
\* whose RMS is not a number, 0/0, is not a candidate).
C2_AutoPicksFirstMinimum ==
    (Called("MinimalLeastSq") /\ pc = "returned" /\ complexity = "oAuto")
    => \E k \in 1..Len(EvaluationOrder) :
          /\ fit.complexity = EvaluationOrder[k]
          /\ fit.coef = CalculateLeastSq(n, time, EvaluationOrder[k]).coef
          /\ fit.rms = RmsOf(EvaluationOrder[k])
          /\ ~IsNaN(fit.rms)
          /\ \A j \in 1..Len(EvaluationOrder) : ~DLess(RmsOf(EvaluationOrder[j]), fit.rms)
          /\ \A j \in 1..(k - 1) :
                \/ IsNaN(RmsOf(EvaluationOrder[j]))
                \/ DLess(fit.rms, RmsOf(EvaluationOrder[j]))

\* C2 witness: the logarithmic and the linear curve tie at the lowest RMS, below
\* the constant curve, and the logarithmic one, evaluated first, is returned
C2_Witness ==
    /\ Called("MinimalLeastSq")
    /\ pc = "returned"
    /\ complexity = "oAuto"
    /\ fit.complexity = "oLogN"
    /\ RmsOf("oN") = fit.rms
    /\ DLess(fit.rms, RmsOf("o1"))

\* the number of distinct (n[i], time[i]) pairs of the call
DistinctPairs == Cardinality({<<n[i], time[i]>> : i \in 1..Len(n)})

\* C7 as claimed: every call of MinimalLeastSq with fewer than two distinct
\* (n[i], time[i]) pairs aborts.
C7_DistinctPairs ==
    (Called("MinimalLeastSq") /\ Len(n) = Len(time) /\ DistinctPairs < 2)
    => pc = "aborted"

\* C7 as amended: every call of MinimalLeastSq with fewer than two
\* (n[i], time[i]) pairs aborts; the pairs need not be distinct.
C7_TwoPairs ==
    (Called("MinimalLeastSq") /\ (Len(n) < 2 \/ Len(time) < 2))
    => pc = "aborted"

\* C7 witness: a call with one pair and a curve that may be fitted is aborted
C7_Witness ==
    /\ Called("MinimalLeastSq")
    /\ pc = "aborted"
    /\ Len(n) = 1
    /\ Len(time) = 1
    /\ complexity = "oN"

\* whether the curve is not zero at some size of the call
CurveNotZero == \E i \in 1..Len(n) : FittingCurve(complexity, n[i]) # ToDouble(0)

\* C3 as claimed: on noiseless data over at least two positive sizes,
\* time[i] = c * g(n[i]) with c > 0, CalculateLeastSq returns the coefficient c
\* and a normalized RMS of 0.
C3_NoiselessExact ==
    (Called("CalculateLeastSq") /\ Len(n) >= 2)
    => /\ fit.coef = ToDouble(coefficient)
       /\ fit.rms = ToDouble(0)

\* C3 as amended: the same, provided g(n[i]) is not 0 at every size (for the
\* logarithmic and the linearithmic curve: provided some size is above 1).
C3_NoiselessExactNotZero ==
    (Called("CalculateLeastSq") /\ Len(n) >= 2 /\ CurveNotZero)
    => /\ fit.coef = ToDouble(coefficient)
       /\ fit.rms = ToDouble(0)

\* C3 witness: the logarithmic curve on the sizes 1 and 2, with coefficient 2
C3_Witness ==
    /\ Called("CalculateLeastSq")
    /\ complexity = "oLogN"
    /\ n = <<1, 2>>
    /\ coefficient = 2
    /\ fit.coef = ToDouble(2)

\* whether v is m * m, without multiplying (m > 0)
IsSquare(v, m) == v % m = 0 /\ v \div m = m

\* whether v is m * m * m, without multiplying (m > 0)
IsCube(v, m) == v % m = 0 /\ IsSquare(v \div m, m)

\* C10 as claimed: the curves map every positive int to the mathematical
\* value: constant to 1, linear to n, quadratic to n^2, cubic to n^3.
C10_CurvesExact ==
    Called("FittingCurve")
    => /\ pc = "returned"
       /\ value[2] = 1
       /\ complexity = "o1" => value[1] = 1
       /\ complexity = "oN" => value[1] = n[1]
       /\ complexity = "oNSquared" => IsSquare(value[1], n[1])
       /\ complexity = "oNCubed" => IsCube(value[1], n[1])

====
